---- MODULE Spec2Model ----
(***************************************************************************)
(* The incremental Earley chart parser of nltk/parse/earleychart.py:       *)
(* the IncrementalChart (edge lists per end position, child pointer lists, *)
(* lazily built select() indexes), the Earley trigger rules and the driver *)
(* loop of IncrementalChartParser.chart_parse.                             *)
(*                                                                         *)
(* earleychart.py builds on nltk/parse/chart.py (Chart.insert, the edge    *)
(* classes, the axioms, the fundamental rule, the cached predictor, tree   *)
(* extraction).  Those parts are modelled from the specification document  *)
(* and are marked "chart.py" below.                                        *)
(***************************************************************************)
EXTENDS Integers, Sequences, FiniteSets, TLC

\* Longest token sequence handed to chart_parse.
MaxLen == 3
\* Deepest tree unfolded from the chart and deepest reference derivation.
MaxDepth == 4

(***************************************************************************)
(* Grammar model                                                           *)
(***************************************************************************)
Nonterminals == {"S", "A", "B", "C"}
Terminals == {"a", "b"}

\* The nonterminals and tokens of the feature grammars: a category with at
\* most one feature, num.
FeatNonterminals ==
  {"S[]", "NP[]", "NP[num=?n]", "NP[num=sg]", "NP[num=pl]",
   "VP[num=?n]", "VP[num=sg]", "VP[num=pl]"}

FeatTerminals == {"dog", "dogs", "barks", "bark"}

is_nonterminal(sym) == sym \in Nonterminals \cup FeatNonterminals

Production(l, r) == [lhs |-> l, rhs |-> r]

ContextFreeGrammar(s, ps) == [start |-> s, productions |-> ps]

\* grammar.productions(lhs=sym): the productions of sym, in grammar order.
productions_by_lhs(g, sym) == SelectSeq(g.productions, LAMBDA p : p.lhs = sym)

\* The grammars the parser is run on: the end-to-end scenarios and the
\* boundary cases (epsilon productions, nullable nonterminals, a unary
\* cycle, left recursion, ambiguity).
Grammars ==
  { ContextFreeGrammar("S", << Production("S", <<"a">>) >>),
    ContextFreeGrammar("S", << Production("S", <<"S", "S">>),
                               Production("S", <<"a">>) >>),
    ContextFreeGrammar("S", << Production("S", <<"A", "B">>),
                               Production("A", <<"a">>),
                               Production("B", <<"b">>) >>),
    ContextFreeGrammar("S", << Production("S", <<"a", "S">>),
                               Production("S", << >>) >>),
    ContextFreeGrammar("S", << Production("S", <<"A", "A">>),
                               Production("A", << >>) >>),
    ContextFreeGrammar("S", << Production("S", <<"A">>),
                               Production("A", <<"A">>),
                               Production("A", <<"a">>) >>),
    ContextFreeGrammar("S", << Production("S", <<"S", "b">>),
                               Production("S", <<"a">>) >>),
    ContextFreeGrammar("S", << Production("S", <<"A", "B">>),
                               Production("A", << >>),
                               Production("B", << >>) >>),
    ContextFreeGrammar("S", << Production("S", <<"A", "C">>),
                               Production("A", << >>),
                               Production("C", <<"A">>) >>),
    ContextFreeGrammar("S", << Production("S", <<"A", "A">>),
                               Production("A", <<"a">>),
                               Production("A", << >>) >>),
    ContextFreeGrammar("S", << Production("S", <<"A", "S">>),
                               Production("S", <<"a">>),
                               Production("A", << >>) >>),
    ContextFreeGrammar("S", << Production("S", <<"a", "A", "C">>),
                               Production("A", << >>),
                               Production("C", <<"A">>) >>),
    ContextFreeGrammar("S", << Production("S", <<"A", "B">>),
                               Production("A", <<"a">>),
                               Production("A", <<"a", "a">>),
                               Production("B", <<"a">>),
                               Production("B", <<"a", "a">>) >>),
    ContextFreeGrammar("S", << Production("S", <<"A", "b">>),
                               Production("A", << >>),
                               Production("A", <<"a", "A">>) >>) }

TokenSeqs == UNION { [1..k -> Terminals] : k \in 0..MaxLen }

\* grammar.check_coverage(tokens): every token is produced by some production.
check_coverage(g, toks) ==
  \A i \in 1..Len(toks) :
    \E j \in 1..Len(g.productions) :
      \E k \in 1..Len(g.productions[j].rhs) : g.productions[j].rhs[k] = toks[i]

(***************************************************************************)
(* Feature grammars: a nonterminal is a category (its type) with at most   *)
(* one feature, num, whose value is sg, pl or the variable ?n.             *)
(***************************************************************************)
\* item[TYPE]
FeatType(sym) ==
  CASE sym = "S[]" -> "S"
    [] sym \in {"NP[]", "NP[num=?n]", "NP[num=sg]", "NP[num=pl]"} -> "NP"
    [] sym \in {"VP[num=?n]", "VP[num=sg]", "VP[num=pl]"} -> "VP"

\* item.get('num'): "none" when the nonterminal has no num feature.
FeatNum(sym) ==
  CASE sym \in {"S[]", "NP[]"} -> "none"
    [] sym \in {"NP[num=?n]", "VP[num=?n]"} -> "?n"
    [] sym \in {"NP[num=sg]", "VP[num=sg]"} -> "sg"
    [] sym \in {"NP[num=pl]", "VP[num=pl]"} -> "pl"

FeatStructNonterminal(type, num) ==
  CHOOSE sym \in FeatNonterminals : FeatType(sym) = type /\ FeatNum(sym) = num

\* unify(a, b): the two nonterminals have a common specialization when
\* their types are equal and their num values do not conflict.  bindings
\* are those of the variables of a (the variables of b are renamed apart).
unify(a, b) ==
  [ok |-> /\ FeatType(a) = FeatType(b)
          /\ \/ FeatNum(a) = FeatNum(b)
             \/ FeatNum(a) \in {"none", "?n"}
             \/ FeatNum(b) \in {"none", "?n"},
   bindings |-> IF FeatNum(a) = "?n" /\ FeatNum(b) \in {"sg", "pl"}
                THEN [v \in {"?n"} |-> FeatNum(b)]
                ELSE [v \in {} |-> v]]

\* Binding application: a bound variable is replaced by its value.
substitute_bindings(sym, bindings) ==
  IF sym \in FeatNonterminals /\ FeatNum(sym) \in DOMAIN bindings
  THEN FeatStructNonterminal(FeatType(sym), bindings[FeatNum(sym)])
  ELSE sym

\* The feature grammars the parser is run on: agreement between NP and VP
\* with one noun, with two nouns, and with a noun that has no number.
AgreementGrammar ==
  ContextFreeGrammar("S[]",
    << Production("S[]", <<"NP[num=?n]", "VP[num=?n]">>),
       Production("NP[num=sg]", <<"dog">>),
       Production("VP[num=sg]", <<"barks">>),
       Production("VP[num=pl]", <<"bark">>) >>)

FeatGrammars ==
  { AgreementGrammar,
    ContextFreeGrammar("S[]",
      << Production("S[]", <<"NP[num=?n]", "VP[num=?n]">>),
         Production("NP[num=sg]", <<"dog">>),
         Production("NP[num=pl]", <<"dogs">>),
         Production("VP[num=sg]", <<"barks">>),
         Production("VP[num=pl]", <<"bark">>) >>),
    ContextFreeGrammar("S[]",
      << Production("S[]", <<"NP[num=?n]", "VP[num=?n]">>),
         Production("NP[]", <<"dog">>),
         Production("VP[num=sg]", <<"barks">>),
         Production("VP[num=pl]", <<"bark">>) >>) }

(***************************************************************************)
(* Edges (chart.py)                                                        *)
(***************************************************************************)
TreeEdge(s, e, l, r, d) ==
  [leaf |-> FALSE, start |-> s, end |-> e, lhs |-> l, rhs |-> r, dot |-> d]

\* A leaf edge: the token at position index, spanning [index, index+1].
LeafEdge(tok, index) ==
  [leaf |-> TRUE, start |-> index, end |-> index + 1, lhs |-> tok,
   rhs |-> << >>, dot |-> 0]

is_complete(e) == e.leaf \/ e.dot = Len(e.rhs)

next(e) == IF is_complete(e) THEN "None" ELSE e.rhs[e.dot + 1]

move_dot_forward(e, new_end) ==
  TreeEdge(e.start, new_end, e.lhs, e.rhs, e.dot + 1)

\* The methods of EdgeI, the names select() accepts as restrictions.
EdgeIAttributes ==
  {"dot", "end", "is_complete", "is_incomplete", "lhs", "length", "next",
   "rhs", "span", "start"}

\* getattr(edge, key)()
EdgeAttr(e, key) ==
  CASE key = "dot" -> e.dot
    [] key = "end" -> e.end
    [] key = "is_complete" -> is_complete(e)
    [] key = "is_incomplete" -> ~is_complete(e)
    [] key = "lhs" -> e.lhs
    [] key = "length" -> e.end - e.start
    [] key = "next" -> next(e)
    [] key = "rhs" -> e.rhs
    [] key = "span" -> <<e.start, e.end>>
    [] key = "start" -> e.start

(***************************************************************************)
(* IncrementalChart                                                        *)
(***************************************************************************)
EmptyMap == [x \in {} |-> x]

MapGet(f, k, default) == IF k \in DOMAIN f THEN f[k] ELSE default

MapPut(f, k, v) == [x \in DOMAIN f \cup {k} |-> IF x = k THEN v ELSE f[x]]

\* Chart.__init__ followed by IncrementalChart.initialize.
initialize(toks) ==
  [tokens |-> toks,
   edgelists |-> [p \in 0..Len(toks) |-> << >>],
   edge_to_cpls |-> EmptyMap,
   indexes |-> EmptyMap,
   class |-> "IncrementalChart"]

num_leaves(c) == Len(c.tokens)

_positions(c) == 0..num_leaves(c)

RECURSIVE ConcatLists(_, _, _)
ConcatLists(lists, p, last) ==
  IF p > last THEN << >> ELSE lists[p] \o ConcatLists(lists, p + 1, last)

\* iteredges: the edges of every edge list, by end position.
iteredges(c) == ConcatLists(c.edgelists, 0, num_leaves(c))

ListElems(lst) == { lst[i] : i \in 1..Len(lst) }

\* The edges held by the edge lists.
EdgeSet(c) == UNION { ListElems(c.edgelists[p]) : p \in DOMAIN c.edgelists }

\* The names restriction keys are sorted over (list.sort on strings).
KeyOrder ==
  <<"dot", "end", "is_complete", "is_incomplete", "lhs", "length", "next",
    "rhs", "span", "start", "tag">>

\* restrictions.keys(): the names of a keyword dictionary, a sequence of
\* <<name, value>> pairs, in the order the dictionary holds them.
keys(restrictions) == [i \in 1..Len(restrictions) |-> restrictions[i][1]]

\* restrictions[key]
DictGet(restrictions, key) ==
  restrictions[CHOOSE i \in 1..Len(restrictions) : restrictions[i][1] = key][2]

\* Variant: the names are left in the dictionary's order.
KeysUnsorted(restr_keys) == restr_keys

\* restr_keys.sort()
SortKeys(restr_keys) ==
  SelectSeq(KeyOrder, LAMBDA k : k \in ListElems(restr_keys))

\* tuple(getattr(edge, key)() for key in restr_keys)
AttrVals(e, restr_keys) ==
  [i \in 1..Len(restr_keys) |-> EdgeAttr(e, restr_keys[i])]

\* One position's index over an edge list: vals -> the edges with those vals,
\* in edge-list order.
IndexOfList(edgelist, restr_keys) ==
  [v \in { AttrVals(edgelist[i], restr_keys) : i \in 1..Len(edgelist) } |->
     SelectSeq(edgelist, LAMBDA e : AttrVals(e, restr_keys) = v)]

\* Variant: the index is created empty, the existing edges are not added.
_add_index_empty(c, restr_keys) ==
  IF \E i \in 1..Len(restr_keys) : restr_keys[i] \notin EdgeIAttributes
  THEN [chart |-> c, raised |-> TRUE]
  ELSE [chart |->
          [c EXCEPT !.indexes =
             MapPut(c.indexes, restr_keys,
                    [p \in _positions(c) |-> EmptyMap])],
        raised |-> FALSE]

\* Variant: the index is created before the names are checked.
_add_index_unchecked(c, restr_keys) ==
  [chart |->
     [c EXCEPT !.indexes =
        MapPut(c.indexes, restr_keys,
               [p \in _positions(c) |->
                  IF \E i \in 1..Len(restr_keys) :
                       restr_keys[i] \notin EdgeIAttributes
                  THEN EmptyMap
                  ELSE IndexOfList(c.edgelists[p], restr_keys)])],
   raised |-> \E i \in 1..Len(restr_keys) : restr_keys[i] \notin EdgeIAttributes]

\* _add_index: raises on a name that is no attribute of EdgeI, else creates
\* the index and adds all existing edges to it.
_add_index(c, restr_keys) ==
  IF \E i \in 1..Len(restr_keys) : restr_keys[i] \notin EdgeIAttributes
  THEN [chart |-> c, raised |-> TRUE]
  ELSE [chart |->
          [c EXCEPT !.indexes =
             MapPut(c.indexes, restr_keys,
                    [p \in _positions(c) |->
                       IndexOfList(c.edgelists[p], restr_keys)])],
        raised |-> FALSE]

\* Variant: get() for setdefault(): an edge whose values have no list yet is
\* appended to a list the index does not hold.
_register_with_indexes_get(c, edge) ==
  [c EXCEPT !.indexes =
     [rk \in DOMAIN c.indexes |->
        [c.indexes[rk] EXCEPT ![edge.end] =
           IF AttrVals(edge, rk) \in DOMAIN @
           THEN MapPut(@, AttrVals(edge, rk),
                       Append(@[AttrVals(edge, rk)], edge))
           ELSE @]]]

\* _register_with_indexes: the edge is appended, in every index, to the list
\* of its attribute values at its end position.
_register_with_indexes(c, edge) ==
  [c EXCEPT !.indexes =
     [rk \in DOMAIN c.indexes |->
        [c.indexes[rk] EXCEPT ![edge.end] =
           MapPut(@, AttrVals(edge, rk),
                  Append(MapGet(@, AttrVals(edge, rk), << >>), edge))]]]

\* FeatureChart._get_type_if_possible (featurechart.py): the type of a
\* feature nonterminal; any other item (a token, None) is returned itself.
_get_type_if_possible(item) ==
  IF item \in FeatNonterminals THEN FeatType(item) ELSE item

\* The attributes whose value is a symbol.  The values of the others
\* (numbers, booleans, tuples) are no feature structures and are indexed as
\* they are.
SymbolAttributes == {"lhs", "next"}

\* self._get_type_if_possible(restrictions[key])
TypeOfValue(key, value) ==
  IF key \in SymbolAttributes THEN _get_type_if_possible(value) ELSE value

\* tuple(self._get_type_if_possible(getattr(edge, key)()) for key in
\* restr_keys)
FeatureAttrVals(e, restr_keys) ==
  [i \in 1..Len(restr_keys) |->
     TypeOfValue(restr_keys[i], EdgeAttr(e, restr_keys[i]))]

FeatureIndexOfList(edgelist, restr_keys) ==
  [v \in { FeatureAttrVals(edgelist[i], restr_keys) :
             i \in 1..Len(edgelist) } |->
     SelectSeq(edgelist, LAMBDA e : FeatureAttrVals(e, restr_keys) = v)]

\* FeatureIncrementalChart._add_index
Feature_add_index(c, restr_keys) ==
  IF \E i \in 1..Len(restr_keys) : restr_keys[i] \notin EdgeIAttributes
  THEN [chart |-> c, raised |-> TRUE]
  ELSE [chart |->
          [c EXCEPT !.indexes =
             MapPut(c.indexes, restr_keys,
                    [p \in _positions(c) |->
                       FeatureIndexOfList(c.edgelists[p], restr_keys)])],
        raised |-> FALSE]

\* Variant: the edge is filed under its attribute values as they are.
Feature_register_untyped(c, edge) == _register_with_indexes(c, edge)

\* FeatureIncrementalChart._register_with_indexes
Feature_register_with_indexes(c, edge) ==
  [c EXCEPT !.indexes =
     [rk \in DOMAIN c.indexes |->
        [c.indexes[rk] EXCEPT ![edge.end] =
           MapPut(@, FeatureAttrVals(edge, rk),
                  Append(MapGet(@, FeatureAttrVals(edge, rk), << >>),
                         edge))]]]

\* Variant: the edge goes to the edge list of its start.
_append_edge_at_start(c, edge) ==
  [c EXCEPT !.edgelists[edge.start] = Append(@, edge)]

\* Variant: the edge is appended twice.
_append_edge_twice(c, edge) ==
  [c EXCEPT !.edgelists[edge.end] = Append(Append(@, edge), edge)]

\* _append_edge: the edge goes to the end of the edge list of its end.
_append_edge(c, edge) ==
  [c EXCEPT !.edgelists[edge.end] = Append(@, edge)]

\* select(end, **restrictions).  The result is an iterator over a list the
\* chart keeps growing: no restrictions, the edge list itself; else the
\* index list of the values (a fresh empty list when the index has none).
\* When _add_index raises, the chart is as _add_index left it.
select(c, end, restrictions) ==
  LET restr_keys == SortKeys(keys(restrictions))
      added == IF restr_keys \in DOMAIN c.indexes
               THEN [chart |-> c, raised |-> FALSE]
               ELSE _add_index(c, restr_keys)
      vals == [i \in 1..Len(restr_keys) |->
                 DictGet(restrictions, restr_keys[i])]
  IN IF restrictions = << >>
     THEN [chart |-> c, raised |-> FALSE,
           iter |-> [kind |-> "edgelist", end |-> end]]
     ELSE IF added.raised
     THEN [chart |-> added.chart, raised |-> TRUE, iter |-> [kind |-> "fresh"]]
     ELSE [chart |-> added.chart, raised |-> FALSE,
           iter |-> IF vals \in DOMAIN added.chart.indexes[restr_keys][end]
                    THEN [kind |-> "index", keys |-> restr_keys,
                          end |-> end, vals |-> vals]
                    ELSE [kind |-> "fresh"]]

\* FeatureIncrementalChart.select: as select, the index looked up by the
\* types of the requested values.
Feature_select(c, end, restrictions) ==
  LET restr_keys == SortKeys(keys(restrictions))
      added == IF restr_keys \in DOMAIN c.indexes
               THEN [chart |-> c, raised |-> FALSE]
               ELSE Feature_add_index(c, restr_keys)
      vals == [i \in 1..Len(restr_keys) |->
                 TypeOfValue(restr_keys[i],
                             DictGet(restrictions, restr_keys[i]))]
  IN IF restrictions = << >>
     THEN [chart |-> c, raised |-> FALSE,
           iter |-> [kind |-> "edgelist", end |-> end]]
     ELSE IF added.raised
     THEN [chart |-> added.chart, raised |-> TRUE, iter |-> [kind |-> "fresh"]]
     ELSE [chart |-> added.chart, raised |-> FALSE,
           iter |-> IF vals \in DOMAIN added.chart.indexes[restr_keys][end]
                    THEN [kind |-> "index", keys |-> restr_keys,
                          end |-> end, vals |-> vals]
                    ELSE [kind |-> "fresh"]]

\* chart.select(end, **restrictions): the method of the chart's class.
chart_select(c, end, restrictions) ==
  IF c.class = "FeatureIncrementalChart"
  THEN Feature_select(c, end, restrictions)
  ELSE select(c, end, restrictions)

\* The list an iterator returned by select() runs over, as it is now.
IterList(c, it) ==
  CASE it.kind = "edgelist" -> c.edgelists[it.end]
    [] it.kind = "index" -> c.indexes[it.keys][it.end][it.vals]
    [] it.kind = "fresh" -> << >>

\* Chart.insert (chart.py): a known edge only gains the child pointer lists
\* and nothing is reported new; a new edge is appended to its edge list,
\* registered with the indexes, and reported new.
insert(c, edge, cpls) ==
  IF edge \in DOMAIN c.edge_to_cpls
  THEN [chart |-> [c EXCEPT !.edge_to_cpls[edge] = @ \cup cpls],
        isnew |-> FALSE]
  ELSE LET c1 == IF c.class = "FeatureIncrementalChart"
                 THEN Feature_register_with_indexes(_append_edge(c, edge),
                                                    edge)
                 ELSE _register_with_indexes(_append_edge(c, edge), edge)
       IN [chart |-> [c1 EXCEPT !.edge_to_cpls = MapPut(@, edge, cpls)],
           isnew |-> TRUE]

\* Chart.insert_with_backpointer (chart.py): every child pointer list of the
\* previous edge, extended by the child edge.
insert_with_backpointer(c, new_edge, previous_edge, child_edge) ==
  insert(c, new_edge,
         { Append(cpl, child_edge) : cpl \in c.edge_to_cpls[previous_edge] })

(***************************************************************************)
(* Rules.  A rule is a generator: the edges it yields (those insert()       *)
(* reported new) go, one at a time, to whoever consumes it.  A rule         *)
(* application returns the chart it leaves and the consumer's state.  An    *)
(* intermediate chart is bound once (x \in { e }) before it is used, so     *)
(* that each step of a loop is computed once.                               *)
(***************************************************************************)
\* A consumer that collects what is yielded: list(...), axiom.apply.
Collector == [lazy |-> FALSE, list |-> << >>]

\* The body of "for edge in new_edges": `edge` is rebound to the new edge,
\* and the new edge goes on the agenda when it ends at `end`.
Push(st, new_edge) ==
  [st EXCEPT !.edge = new_edge,
             !.agenda = IF new_edge.end = st.end THEN Append(@, new_edge)
                        ELSE @]

RECURSIVE PushEach(_, _, _)
PushEach(st, new_edges, i) ==
  IF i > Len(new_edges) THEN st
  ELSE PushEach(Push(st, new_edges[i]), new_edges, i + 1)

\* yield new_edge.  The driver's for loop over the generator itself runs its
\* body before the generator resumes; a list takes the edge and the
\* generator resumes at once.
Yield(out, new_edge) ==
  IF out.lazy THEN Push(out, new_edge)
  ELSE [out EXCEPT !.list = Append(@, new_edge)]

RECURSIVE InsertEach(_, _, _, _)
InsertEach(c, edges, i, out) ==
  IF i > Len(edges) THEN [chart |-> c, out |-> out]
  ELSE CHOOSE res \in
         { InsertEach(ins.chart, edges, i + 1,
                      IF ins.isnew THEN Yield(out, edges[i]) ELSE out) :
             ins \in { insert(c, edges[i], { << >> }) } } : TRUE

\* LeafInitRule (chart.py): a leaf edge for each token.
LeafInitRule(c, g) ==
  InsertEach(c, [i \in 1..num_leaves(c) |-> LeafEdge(c.tokens[i], i - 1)],
             1, Collector)

\* TopDownInitRule (chart.py): S -> . beta over [0,0] for each production of
\* the start symbol.
TopDownInitRule(c, g) ==
  LET prods == productions_by_lhs(g, g.start)
  IN InsertEach(c, [i \in 1..Len(prods) |->
                      TreeEdge(0, 0, prods[i].lhs, prods[i].rhs, 0)],
                1, Collector)

\* SingleEdgeFundamentalRule._apply_complete (chart.py): the loop over the
\* left edges select() iterates, each combined with the right edge.  The
\* iterator runs over the chart's own list, so an edge the loop inserts into
\* that list is itself visited.
RECURSIVE FundamentalLoop(_, _, _, _, _)
FundamentalLoop(c, it, right_edge, i, out) ==
  IF i > Len(IterList(c, it)) THEN [chart |-> c, out |-> out]
  ELSE LET left_edge == IterList(c, it)[i]
           new_edge == move_dot_forward(left_edge, right_edge.end)
       IN CHOOSE res \in
            { FundamentalLoop(ins.chart, it, right_edge, i + 1,
                              IF ins.isnew THEN Yield(out, new_edge) ELSE out) :
                ins \in { insert_with_backpointer(c, new_edge, left_edge,
                                                  right_edge) } } : TRUE

_apply_complete(c, right_edge, out) ==
  CHOOSE res \in
    { FundamentalLoop(sel.chart, sel.iter, right_edge, 1, out) :
        sel \in { select(c, right_edge.start,
                         << <<"is_complete", FALSE>>,
                            <<"next", right_edge.lhs>> >>) } } :
    TRUE

NoNewEdges(c, out) == [chart |-> c, out |-> out]

\* Variant: no is_complete() test.
CompleterRuleAnyEdge(c, g, edge, out) ==
  IF edge.leaf THEN NoNewEdges(c, out) ELSE _apply_complete(c, edge, out)

\* CompleterRule.apply_iter: a complete edge that is no leaf edge.
CompleterRule(c, g, edge, out) ==
  IF edge.leaf THEN NoNewEdges(c, out)
  ELSE IF is_complete(edge) THEN _apply_complete(c, edge, out)
  ELSE NoNewEdges(c, out)

\* Variant: neither the LeafEdge test nor the is_complete() test.
ScannerRuleAnyEdge(c, g, edge, out) == _apply_complete(c, edge, out)

\* ScannerRule.apply_iter: a leaf edge.
ScannerRule(c, g, edge, out) ==
  IF ~edge.leaf THEN NoNewEdges(c, out)
  ELSE IF is_complete(edge) THEN _apply_complete(c, edge, out)
  ELSE NoNewEdges(c, out)

\* PredictorRule = CachedTopDownPredictRule (chart.py): for an incomplete
\* edge whose next symbol B is a nonterminal not yet predicted at the edge's
\* end, B -> . gamma over [end, end] for each production of B.  The cache
\* `done` belongs to the rule object: it maps (B, end) to the chart the
\* prediction was last made on (id names the chart), and the rule skips when
\* that is the chart at hand.  emits tells what the rule did with (B, end):
\* made the prediction, or skipped it.
PredictorRule(c, g, done, edge, out, id) ==
  IF is_complete(edge) \/ ~is_nonterminal(next(edge))
  THEN [chart |-> c, out |-> out, done |-> done, emits |-> << >>]
  ELSE IF /\ <<next(edge), edge.end>> \in DOMAIN done
          /\ done[<<next(edge), edge.end>>] = id
  THEN [chart |-> c, out |-> out, done |-> done,
        emits |-> << [sym |-> next(edge), pos |-> edge.end, made |-> FALSE] >>]
  ELSE LET prods == productions_by_lhs(g, next(edge))
       IN CHOOSE res \in
            { [chart |-> r.chart, out |-> r.out,
               done |-> MapPut(done, <<next(edge), edge.end>>, id),
               emits |-> << [sym |-> next(edge), pos |-> edge.end,
                             made |-> TRUE] >>] :
                r \in { InsertEach(c, [i \in 1..Len(prods) |->
                                         TreeEdge(edge.end, edge.end,
                                                  prods[i].lhs, prods[i].rhs, 0)],
                                   1, out) } } : TRUE

(***************************************************************************)
(* Earley FCFG rules.  The control flow of the plain rules; nonterminals   *)
(* are compared by unification.                                            *)
(***************************************************************************)
\* grammar.productions(lhs=sym) of a feature grammar: the productions whose
\* left-hand side unifies with sym, in grammar order.
productions_unifying(g, sym) ==
  SelectSeq(g.productions, LAMBDA p : unify(p.lhs, sym).ok)

\* FeatureTopDownInitRule (featurechart.py): an edge over [0,0] for each
\* production of the start symbol.
FeatureTopDownInitRule(c, g) ==
  LET prods == productions_unifying(g, g.start)
  IN InsertEach(c, [i \in 1..Len(prods) |->
                      TreeEdge(0, 0, prods[i].lhs, prods[i].rhs, 0)],
                1, Collector)

\* Whether FeatureFundamentalRule (featurechart.py) combines the two edges:
\* a leaf edge must equal the next symbol, the left-hand side of a tree
\* edge must unify with it.
FeatureApplicable(left_edge, right_edge) ==
  /\ ~left_edge.leaf
  /\ ~is_complete(left_edge)
  /\ is_complete(right_edge)
  /\ IF right_edge.leaf THEN next(left_edge) = right_edge.lhs
     ELSE /\ next(left_edge) \in FeatNonterminals
          /\ unify(next(left_edge), right_edge.lhs).ok

\* The bindings the combination adds to the left edge.
FeatureBindings(left_edge, right_edge) ==
  IF right_edge.leaf THEN [v \in {} |-> v]
  ELSE unify(next(left_edge), right_edge.lhs).bindings

\* FeatureTreeEdge.move_dot_forward(new_end, bindings): the dot moves over
\* the next symbol; the bindings are applied to the left-hand side and to
\* the rest of the right-hand side.
Feature_move_dot_forward(e, new_end, bindings) ==
  TreeEdge(e.start, new_end, substitute_bindings(e.lhs, bindings),
           [k \in 1..Len(e.rhs) |->
              IF k > e.dot + 1 THEN substitute_bindings(e.rhs[k], bindings)
              ELSE e.rhs[k]],
           e.dot + 1)

\* Variant: every edge select() returns is combined, unifying or not.
FeatureLoopNoUnify(c, it, right_edge, i, out) ==
  FundamentalLoop(c, it, right_edge, i, out)

\* for left_edge in chart.select(...): for new_edge in fr.apply_iter(chart,
\* grammar, left_edge, edge): yield new_edge.  select() has looked the left
\* edges up by the type of their next symbol; the fundamental rule leaves
\* out those that do not unify.
RECURSIVE FeatureLoop(_, _, _, _, _)
FeatureLoop(c, it, right_edge, i, out) ==
  IF i > Len(IterList(c, it)) THEN [chart |-> c, out |-> out]
  ELSE LET left_edge == IterList(c, it)[i]
           new_edge ==
             Feature_move_dot_forward(left_edge, right_edge.end,
                                      FeatureBindings(left_edge, right_edge))
       IN IF ~FeatureApplicable(left_edge, right_edge)
          THEN FeatureLoop(c, it, right_edge, i + 1, out)
          ELSE CHOOSE res \in
                 { FeatureLoop(ins.chart, it, right_edge, i + 1,
                               IF ins.isnew THEN Yield(out, new_edge)
                               ELSE out) :
                     ins \in { insert_with_backpointer(c, new_edge, left_edge,
                                                       right_edge) } } : TRUE

\* chart.select(end=edge.start(), is_complete=False, next=edge.lhs()) and
\* the loop over the edges it returns.
FeatureSelectLoop(c, right_edge, out) ==
  CHOOSE res \in
    { FeatureLoop(sel.chart, sel.iter, right_edge, 1, out) :
        sel \in { chart_select(c, right_edge.start,
                               << <<"is_complete", FALSE>>,
                                  <<"next", right_edge.lhs>> >>) } } :
    TRUE

\* FeatureCompleterRule.apply_iter
FeatureCompleterRule(c, g, edge, out) ==
  IF edge.leaf THEN NoNewEdges(c, out)
  ELSE IF is_complete(edge) THEN FeatureSelectLoop(c, edge, out)
  ELSE NoNewEdges(c, out)

\* FeatureScannerRule.apply_iter
FeatureScannerRule(c, g, edge, out) ==
  IF ~edge.leaf THEN NoNewEdges(c, out)
  ELSE IF is_complete(edge) THEN FeatureSelectLoop(c, edge, out)
  ELSE NoNewEdges(c, out)

\* FeaturePredictorRule = FeatureTopDownPredictRule (featurechart.py): as
\* PredictorRule, for each production whose left-hand side unifies with the
\* next symbol.
FeaturePredictorRule(c, g, done, edge, out, id) ==
  IF is_complete(edge) \/ ~is_nonterminal(next(edge))
  THEN [chart |-> c, out |-> out, done |-> done, emits |-> << >>]
  ELSE IF /\ <<next(edge), edge.end>> \in DOMAIN done
          /\ done[<<next(edge), edge.end>>] = id
  THEN [chart |-> c, out |-> out, done |-> done,
        emits |-> << [sym |-> next(edge), pos |-> edge.end, made |-> FALSE] >>]
  ELSE LET prods == productions_unifying(g, next(edge))
       IN CHOOSE res \in
            { [chart |-> r.chart, out |-> r.out,
               done |-> MapPut(done, <<next(edge), edge.end>>, id),
               emits |-> << [sym |-> next(edge), pos |-> edge.end,
                             made |-> TRUE] >>] :
                r \in { InsertEach(c, [i \in 1..Len(prods) |->
                                         TreeEdge(edge.end, edge.end,
                                                  prods[i].lhs, prods[i].rhs,
                                                  0)],
                                   1, out) } } : TRUE

(***************************************************************************)
(* IncrementalChartParser                                                  *)
(***************************************************************************)
FEATURE_EARLEY_STRATEGY ==
  <<"LeafInitRule", "FeatureTopDownInitRule", "FeatureCompleterRule",
    "FeatureScannerRule", "FeaturePredictorRule">>

EARLEY_STRATEGY ==
  <<"LeafInitRule", "TopDownInitRule", "CompleterRule", "ScannerRule",
    "PredictorRule">>

NUM_EDGES(rule) ==
  IF rule \in {"LeafInitRule", "TopDownInitRule", "FeatureTopDownInitRule"}
  THEN 0 ELSE 1

\* __init__: the strategy split into axioms and inference rules.
_axioms(strategy) == SelectSeq(strategy, LAMBDA rule : NUM_EDGES(rule) = 0)

_inference_rules(strategy) ==
  SelectSeq(strategy, LAMBDA rule : NUM_EDGES(rule) = 1)

\* axiom.apply(chart, grammar)
apply(rule, c, g) ==
  CASE rule = "LeafInitRule" -> LeafInitRule(c, g)
    [] rule = "TopDownInitRule" -> TopDownInitRule(c, g)
    [] rule = "FeatureTopDownInitRule" -> FeatureTopDownInitRule(c, g)

\* Variant: the rule is applied as a new rule object, whose cache is empty
\* and is thrown away.
apply_iter_new_rule(rule, c, g, done, edge, out, id) ==
  CASE rule = "CompleterRule" ->
         CHOOSE res \in { [chart |-> r.chart, out |-> r.out, done |-> done,
                           emits |-> << >>] :
                            r \in { CompleterRule(c, g, edge, out) } } : TRUE
    [] rule = "ScannerRule" ->
         CHOOSE res \in { [chart |-> r.chart, out |-> r.out, done |-> done,
                           emits |-> << >>] :
                            r \in { ScannerRule(c, g, edge, out) } } : TRUE
    [] rule = "PredictorRule" ->
         CHOOSE res \in { [chart |-> r.chart, out |-> r.out, done |-> done,
                           emits |-> r.emits] :
                            r \in { PredictorRule(c, g, EmptyMap, edge, out,
                                                  id) } } : TRUE

\* rule.apply_iter(chart, grammar, edge), run to exhaustion by its consumer.
\* The rules are the objects of the strategy list, the same for every call.
apply_iter(rule, c, g, done, edge, out, id) ==
  CASE rule = "CompleterRule" ->
         CHOOSE res \in { [chart |-> r.chart, out |-> r.out, done |-> done,
                           emits |-> << >>] :
                            r \in { CompleterRule(c, g, edge, out) } } : TRUE
    [] rule = "ScannerRule" ->
         CHOOSE res \in { [chart |-> r.chart, out |-> r.out, done |-> done,
                           emits |-> << >>] :
                            r \in { ScannerRule(c, g, edge, out) } } : TRUE
    [] rule = "PredictorRule" -> PredictorRule(c, g, done, edge, out, id)
    [] rule = "FeatureCompleterRule" ->
         CHOOSE res \in { [chart |-> r.chart, out |-> r.out, done |-> done,
                           emits |-> << >>] :
                            r \in { FeatureCompleterRule(c, g, edge, out) } } :
           TRUE
    [] rule = "FeatureScannerRule" ->
         CHOOSE res \in { [chart |-> r.chart, out |-> r.out, done |-> done,
                           emits |-> << >>] :
                            r \in { FeatureScannerRule(c, g, edge, out) } } :
           TRUE
    [] rule = "FeaturePredictorRule" ->
         FeaturePredictorRule(c, g, done, edge, out, id)

\* Variant: the generator is handed to trace_new_edges, which runs it to its
\* end, and the for loop finds it exhausted.
TracedNewEdgesExhausted(out) == << >>

\* new_edges = list(new_edges): the edges the rule yielded, in order.
TracedNewEdges(out) == out.list

\* The body of "while agenda" after the pop: each inference rule in turn is
\* applied to `edge`, and every edge it yields that ends at `end` is appended
\* to the agenda.  With trace = 0 the for loop consumes the generator; else
\* the generator is first run into a list.  The inner "for edge in
\* new_edges" rebinds `edge`, so the next rule is applied to the last edge
\* yielded so far.  st holds the locals agenda, end and edge.
\* rule.apply_iter(chart, grammar, edge): the rule and the edge it is given.
Offer(rule, edge) == [rule |-> rule, edge |-> edge]

RECURSIVE ApplyRules(_, _, _, _, _, _, _, _)
ApplyRules(rules, g, c, done, st, tr, id, emits) ==
  IF rules = << >>
  THEN [chart |-> c, done |-> done, agenda |-> st.agenda, emits |-> emits,
        offered |-> << >>]
  ELSE IF tr = 0
  THEN CHOOSE res \in
         { [x EXCEPT !.offered = << Offer(Head(rules), st.edge) >> \o @] :
             x \in { ApplyRules(Tail(rules), g, r.chart, r.done, r.out, tr,
                                id, emits \o r.emits) :
                       r \in { apply_iter(Head(rules), c, g, done, st.edge,
                                          [st EXCEPT !.lazy = TRUE],
                                          id) } } } : TRUE
  ELSE CHOOSE res \in
         { [x EXCEPT !.offered = << Offer(Head(rules), st.edge) >> \o @] :
             x \in { ApplyRules(Tail(rules), g, r.chart, r.done,
                                PushEach(r.out, TracedNewEdges(r.out), 1),
                                tr, id, emits \o r.emits) :
                       r \in { apply_iter(Head(rules), c, g, done, st.edge,
                                          [st EXCEPT !.lazy = FALSE,
                                                     !.list = << >>],
                                          id) } } } : TRUE

\* The locals of the loop body right after edge = agenda.pop().
Locals(ag, endpos, edge) ==
  [lazy |-> FALSE, list |-> << >>, agenda |-> ag, end |-> endpos,
   edge |-> edge]

(***************************************************************************)
(* State: one chart_parse call per parser in `parsers`.                    *)
(***************************************************************************)
VARIABLES
  parsers,    \* the chart_parse calls in progress
  strategy,   \* the strategy each parser was constructed with
  chart_class, \* self._chart_class
  grammar,    \* self._grammar
  tokens,     \* the tokens argument
  pc,         \* where the call is: start, axioms, for, while, done, raised
  chart,      \* the IncrementalChart of the call
  axiom,      \* index of the next axiom to apply
  end,        \* the driver's loop variable
  agenda,     \* the agenda of the current end position
  predicted,  \* the cache of the strategy's PredictorRule object
  popped,     \* the edges popped from the agenda so far, in order
  trace,      \* the trace level of the call
  emitted,    \* what the predictor did in the call: made or skipped (B, p)
  offered,    \* the rules applied after the last pop, each with its edge
  result      \* what the last call a client made on the chart returned

vars == <<parsers, strategy, chart_class, grammar, tokens, pc, chart, axiom, end, agenda, predicted,
          popped, trace, emitted, offered, result>>

\* No chart has been created yet.
NoChart ==
  [tokens |-> << >>, edgelists |-> EmptyMap, edge_to_cpls |-> EmptyMap,
   indexes |-> EmptyMap, class |-> "None"]

\* No call has been made on the chart by a client.
NoResult == [op |-> "none"]

\* trace = 0 is silent, 1 lists the new edges, 2 adds the banners.
TraceLevels == {0, 1, 2}

\* EarleyChartParser(grammar): the default strategy and chart class.
EarleyChartParser ==
  /\ strategy = [r \in parsers |-> EARLEY_STRATEGY]
  /\ chart_class = [r \in parsers |-> "IncrementalChart"]

\* self._chart_class(tokens)
_chart_class(cls, toks) == [initialize(toks) EXCEPT !.class = cls]

InitCalls ==
  /\ pc = [r \in parsers |-> "start"]
  /\ chart = [r \in parsers |-> NoChart]
  /\ axiom = [r \in parsers |-> 1]
  /\ end = [r \in parsers |-> 0]
  /\ agenda = [r \in parsers |-> << >>]
  /\ predicted = EmptyMap
  /\ popped = [r \in parsers |-> << >>]
  /\ emitted = [r \in parsers |-> << >>]
  /\ offered = [r \in parsers |-> << >>]
  /\ result = [r \in parsers |-> NoResult]

Init ==
  /\ parsers = {1}
  /\ EarleyChartParser
  /\ grammar \in [parsers -> Grammars]
  /\ tokens \in [parsers -> TokenSeqs]
  /\ trace \in [parsers -> TraceLevels]
  /\ InitCalls

\* check_coverage raises: the call ends before a chart exists.
CoverageError(r) ==
  /\ pc[r] = "start"
  /\ ~check_coverage(grammar[r], tokens[r])
  /\ pc' = [pc EXCEPT ![r] = "raised"]
  /\ UNCHANGED <<parsers, strategy, chart_class, grammar, tokens, chart,
                 axiom, end, agenda, predicted, popped, trace, emitted,
                 offered, result>>

\* Variant: the chart is created without the coverage check.
CreateChartUnchecked(r) ==
  /\ pc[r] = "start"
  /\ chart' = [chart EXCEPT ![r] = _chart_class(chart_class[r], tokens[r])]
  /\ pc' = [pc EXCEPT ![r] = "axioms"]
  /\ UNCHANGED <<parsers, strategy, chart_class, grammar, tokens, axiom, end,
                 agenda, predicted, popped, trace, emitted, offered, result>>

\* chart = self._chart_class(tokens)
CreateChart(r) ==
  /\ pc[r] = "start"
  /\ check_coverage(grammar[r], tokens[r])
  /\ chart' = [chart EXCEPT ![r] = _chart_class(chart_class[r], tokens[r])]
  /\ pc' = [pc EXCEPT ![r] = "axioms"]
  /\ UNCHANGED <<parsers, strategy, chart_class, grammar, tokens, axiom, end,
                 agenda, predicted, popped, trace, emitted, offered, result>>

\* for axiom in self._axioms: axiom.apply(chart, grammar)
ApplyAxiom(r) ==
  /\ pc[r] = "axioms"
  /\ axiom[r] <= Len(_axioms(strategy[r]))
  /\ chart' = [chart EXCEPT
                 ![r] = apply(_axioms(strategy[r])[axiom[r]], chart[r],
                              grammar[r]).chart]
  /\ axiom' = [axiom EXCEPT ![r] = @ + 1]
  /\ pc' = [pc EXCEPT ![r] = IF axiom[r] = Len(_axioms(strategy[r]))
                              THEN "for" ELSE "axioms"]
  /\ UNCHANGED <<parsers, strategy, chart_class, grammar, tokens, end, agenda,
                 predicted, popped, trace, emitted, offered, result>>

\* Variant: the agenda starts empty, without the edges already at end.
ForEndNoSnapshot(r) ==
  /\ pc[r] = "for"
  /\ end[r] <= num_leaves(chart[r])
  /\ agenda' = [agenda EXCEPT ![r] = << >>]
  /\ pc' = [pc EXCEPT ![r] = "while"]
  /\ UNCHANGED <<parsers, strategy, chart_class, grammar, tokens, chart,
                 axiom, end, predicted, popped, trace, emitted, offered,
                 result>>

\* for end in range(num_leaves+1): agenda = list(chart.select(end=end))
ForEnd(r) ==
  /\ pc[r] = "for"
  /\ end[r] <= num_leaves(chart[r])
  /\ agenda' = [agenda EXCEPT
                  ![r] = IterList(chart[r],
                                  select(chart[r], end[r], << >>).iter)]
  /\ pc' = [pc EXCEPT ![r] = "while"]
  /\ UNCHANGED <<parsers, strategy, chart_class, grammar, tokens, chart,
                 axiom, end, predicted, popped, trace, emitted, offered,
                 result>>

\* One turn of "while agenda": the i-th agenda entry is removed and the
\* inference rules are applied.
PopAt(r, i) ==
  LET edge == agenda[r][i]
      rest == SubSeq(agenda[r], 1, i - 1) \o
              SubSeq(agenda[r], i + 1, Len(agenda[r]))
  IN \E res \in { ApplyRules(_inference_rules(strategy[r]), grammar[r],
                             chart[r], predicted,
                             Locals(rest, end[r], edge), trace[r], r,
                             << >>) } :
       /\ chart' = [chart EXCEPT ![r] = res.chart]
       /\ predicted' = res.done
       /\ agenda' = [agenda EXCEPT ![r] = res.agenda]
       /\ popped' = [popped EXCEPT ![r] = Append(@, edge)]
       /\ emitted' = [emitted EXCEPT ![r] = @ \o res.emits]
       /\ offered' = [offered EXCEPT ![r] = res.offered]
       /\ UNCHANGED <<parsers, strategy, chart_class, grammar, tokens, pc, axiom,
                 end, trace, result>>

\* Variant: any agenda entry is taken, not the last.
PopEdgeAny(r) ==
  /\ pc[r] = "while"
  /\ agenda[r] # << >>
  /\ \E i \in 1..Len(agenda[r]) : PopAt(r, i)

\* Variant: the last agenda entry is read and left on the agenda.
PopEdgeKeep(r) ==
  /\ pc[r] = "while"
  /\ agenda[r] # << >>
  /\ \E res \in { ApplyRules(_inference_rules(strategy[r]), grammar[r],
                             chart[r], predicted,
                              Locals(agenda[r], end[r],
                                     agenda[r][Len(agenda[r])]),
                              trace[r], r, << >>) } :
       /\ chart' = [chart EXCEPT ![r] = res.chart]
       /\ predicted' = res.done
       /\ agenda' = [agenda EXCEPT ![r] = res.agenda]
       /\ emitted' = [emitted EXCEPT ![r] = @ \o res.emits]
       /\ offered' = [offered EXCEPT ![r] = res.offered]
       /\ UNCHANGED <<parsers, strategy, chart_class, grammar, tokens, pc, axiom,
                 end, popped, trace, result>>

\* edge = agenda.pop()
PopEdge(r) ==
  /\ pc[r] = "while"
  /\ agenda[r] # << >>
  /\ PopAt(r, Len(agenda[r]))

\* The agenda is empty: on to the next end position.
WhileExit(r) ==
  /\ pc[r] = "while"
  /\ agenda[r] = << >>
  /\ end' = [end EXCEPT ![r] = @ + 1]
  /\ pc' = [pc EXCEPT ![r] = "for"]
  /\ UNCHANGED <<parsers, strategy, chart_class, grammar, tokens, chart,
                 axiom, agenda, predicted, popped, trace, emitted, offered,
                 result>>

\* return chart
Return(r) ==
  /\ pc[r] = "for"
  /\ end[r] > num_leaves(chart[r])
  /\ pc' = [pc EXCEPT ![r] = "done"]
  /\ UNCHANGED <<parsers, strategy, chart_class, grammar, tokens, chart,
                 axiom, end, agenda, predicted, popped, trace, emitted,
                 offered, result>>

Next ==
  \/ \E r \in parsers : CoverageError(r)
  \/ \E r \in parsers : CreateChart(r)
  \/ \E r \in parsers : ApplyAxiom(r)
  \/ \E r \in parsers : ForEnd(r)
  \/ \E r \in parsers : PopEdge(r)
  \/ \E r \in parsers : WhileExit(r)
  \/ \E r \in parsers : Return(r)

Spec == Init /\ [][Next]_vars

\* chart_parse is sequential code: a call that can take a step takes it.
FairSpec == Spec /\ WF_vars(Next)

\* The token sequences two interleaved calls are run on.
ShortTokenSeqs == UNION { [1..k -> Terminals] : k \in 0..(MaxLen - 1) }

\* The token sequences a call is repeated on.
RerunTokenSeqs == UNION { [1..k -> Terminals] : k \in 0..(MaxLen - 2) }

\* Two calls of chart_parse on the same grammar and tokens, interleaved.
Init2 ==
  /\ parsers = {1, 2}
  /\ EarleyChartParser
  /\ \E g \in Grammars : grammar = [r \in parsers |-> g]
  /\ \E w \in RerunTokenSeqs : tokens = [r \in parsers |-> w]
  /\ trace = [r \in parsers |-> 0]
  /\ InitCalls

Spec2 == Init2 /\ [][Next]_vars

\* FeatureEarleyChartParser(grammar): the feature strategy and chart class.
FeatureEarleyChartParser ==
  /\ strategy = [r \in parsers |-> FEATURE_EARLEY_STRATEGY]
  /\ chart_class = [r \in parsers |-> "FeatureIncrementalChart"]

FeatTokenSeqs == UNION { [1..k -> FeatTerminals] : k \in 0..(MaxLen - 1) }

\* One chart_parse call of a feature parser.
FeatInit ==
  /\ parsers = {1}
  /\ FeatureEarleyChartParser
  /\ grammar \in [parsers -> FeatGrammars]
  /\ tokens \in [parsers -> FeatTokenSeqs]
  /\ trace = [r \in parsers |-> 0]
  /\ InitCalls

FeatSpec == FeatInit /\ [][Next]_vars

\* The calls a second thread makes while the first parses.
OtherCalls ==
  { [grammar |-> ContextFreeGrammar("S", << Production("S", <<"S", "S">>),
                                            Production("S", <<"a">>) >>),
     tokens |-> <<"a", "a">>],
    [grammar |-> ContextFreeGrammar("S", << Production("S", <<"A", "A">>),
                                            Production("A", <<"a">>),
                                            Production("A", << >>) >>),
     tokens |-> <<"a">>] }

\* Two calls of chart_parse, each on its own grammar and tokens, both with
\* the default strategy, interleaved between agenda pops.
Init3 ==
  /\ parsers = {1, 2}
  /\ EarleyChartParser
  /\ \E g \in Grammars : \E w \in ShortTokenSeqs : \E o \in OtherCalls :
       /\ grammar = (1 :> g) @@ (2 :> o.grammar)
       /\ tokens = (1 :> w) @@ (2 :> o.tokens)
  /\ trace = [r \in parsers |-> 0]
  /\ InitCalls

Spec3 == Init3 /\ [][Next]_vars

\* chart_parse from entry to return with no other call running: the chart it
\* returns and what its predictor did.
RECURSIVE WhileAgenda(_, _, _, _, _, _, _, _)
WhileAgenda(g, c, done, ag, endpos, tr, id, emits) ==
  IF ag = << >> THEN [chart |-> c, done |-> done, emits |-> emits]
  ELSE CHOOSE res \in
         { WhileAgenda(g, r.chart, r.done, r.agenda, endpos, tr, id, r.emits) :
             r \in { ApplyRules(_inference_rules(EARLEY_STRATEGY), g, c, done,
                                Locals(SubSeq(ag, 1, Len(ag) - 1), endpos,
                                       ag[Len(ag)]),
                                tr, id, emits) } } : TRUE

RECURSIVE ForEnds(_, _, _, _, _, _, _)
ForEnds(g, c, done, endpos, tr, id, emits) ==
  IF endpos > num_leaves(c) THEN [chart |-> c, emits |-> emits]
  ELSE CHOOSE res \in
         { ForEnds(g, w.chart, w.done, endpos + 1, tr, id, w.emits) :
             w \in { WhileAgenda(g, c, done,
                                 IterList(c, select(c, endpos, << >>).iter),
                                 endpos, tr, id, emits) } } : TRUE

RECURSIVE ApplyAxioms(_, _, _)
ApplyAxioms(c, g, k) ==
  IF k > Len(_axioms(EARLEY_STRATEGY)) THEN c
  ELSE ApplyAxioms(apply(_axioms(EARLEY_STRATEGY)[k], c, g).chart, g, k + 1)

chart_parse(g, toks, tr) ==
  ForEnds(g, ApplyAxioms(initialize(toks), g, 1), EmptyMap, 0, tr, 1, << >>)

(***************************************************************************)
(* A client of the chart: insert and select called directly, in any order. *)
(***************************************************************************)
\* Most edges a client puts into one chart.
MaxEdges == 3

ClientTokens == <<"a">>

\* The edges the client inserts: two end at 0 with the same next symbol, two
\* have the same lhs, two end at 1.
ClientEdges ==
  { TreeEdge(0, 0, "S", <<"A", "B">>, 0),
    TreeEdge(0, 0, "A", <<"A">>, 0),
    TreeEdge(0, 1, "A", <<"a">>, 1),
    LeafEdge("a", 0) }

\* The child pointer lists the client passes to insert.
ClientCpls == { << >>, << LeafEdge("a", 0) >> }

\* The keyword arguments the client passes to select: none, one name, two
\* names in either order, and a name ("tag") that is no attribute of an edge,
\* alone and next to a good one.
ClientRestrictions ==
  << << >>,
     << <<"lhs", "A">> >>,
     << <<"is_complete", FALSE>>, <<"next", "A">> >>,
     << <<"next", "A">>, <<"is_complete", FALSE>> >>,
     << <<"tag", "x">> >>,
     << <<"tag", "x">>, <<"lhs", "A">> >> >>

ClientInit ==
  /\ parsers = {1}
  /\ EarleyChartParser
  /\ grammar = [r \in parsers |->
                  ContextFreeGrammar("S", << Production("S", <<"a">>) >>)]
  /\ tokens = [r \in parsers |-> ClientTokens]
  /\ trace = [r \in parsers |-> 0]
  /\ pc = [r \in parsers |-> "client"]
  /\ chart = [r \in parsers |-> _chart_class(chart_class[r], tokens[r])]
  /\ axiom = [r \in parsers |-> 1]
  /\ end = [r \in parsers |-> 0]
  /\ agenda = [r \in parsers |-> << >>]
  /\ predicted = EmptyMap
  /\ popped = [r \in parsers |-> << >>]
  /\ emitted = [r \in parsers |-> << >>]
  /\ offered = [r \in parsers |-> << >>]
  /\ result = [r \in parsers |-> NoResult]

\* chart.insert(edge, cpl)
ClientInsert(r, edge, cpl) ==
  /\ pc[r] = "client"
  /\ edge \in EdgeSet(chart[r]) \/ Len(iteredges(chart[r])) < MaxEdges
  /\ \E ins \in { insert(chart[r], edge, {cpl}) } :
       /\ chart' = [chart EXCEPT ![r] = ins.chart]
       /\ result' = [result EXCEPT
                       ![r] = [op |-> "insert", edge |-> edge, cpl |-> cpl,
                               value |-> ins.isnew]]
  /\ UNCHANGED <<parsers, strategy, chart_class, grammar, tokens, pc, axiom,
                 end, agenda, predicted, popped, trace, emitted, offered>>

\* list(chart.select(end, **restrictions)), or the error it raises.
ClientSelect(r, e, restrictions) ==
  /\ pc[r] = "client"
  /\ \E sel \in { chart_select(chart[r], e, restrictions) } :
       /\ chart' = [chart EXCEPT ![r] = sel.chart]
       /\ result' = [result EXCEPT
                       ![r] = [op |-> "select", end |-> e,
                               restrictions |-> restrictions,
                               raised |-> sel.raised,
                               value |-> IF sel.raised THEN << >>
                                         ELSE IterList(sel.chart, sel.iter)]]
  /\ UNCHANGED <<parsers, strategy, chart_class, grammar, tokens, pc, axiom,
                 end, agenda, predicted, popped, trace, emitted, offered>>

ChartNext ==
  \/ \E r \in parsers : \E edge \in ClientEdges : \E cpl \in ClientCpls :
       ClientInsert(r, edge, cpl)
  \/ \E r \in parsers : \E e \in _positions(chart[r]) :
       \E k \in 1..Len(ClientRestrictions) :
         ClientSelect(r, e, ClientRestrictions[k])

ChartSpec == ClientInit /\ [][ChartNext]_vars

\* A client of a FeatureIncrementalChart over one token.
FeatClientTokens == <<"dog">>

\* The edges the client inserts: edges whose next symbol or left-hand side
\* have the same type and different num values, and a leaf edge.
FeatClientEdges ==
  { TreeEdge(0, 0, "S[]", <<"NP[num=?n]", "VP[num=?n]">>, 0),
    TreeEdge(0, 0, "NP[num=sg]", <<"dog">>, 0),
    TreeEdge(0, 0, "NP[num=pl]", <<"dogs">>, 0),
    TreeEdge(0, 1, "S[]", <<"NP[num=?n]", "VP[num=sg]">>, 1),
    TreeEdge(0, 1, "S[]", <<"NP[num=?n]", "VP[num=pl]">>, 1),
    LeafEdge("dog", 0) }

\* The restrictions the client selects by: by left-hand side, fully and
\* partly specified; by next symbol as the feature rules do, in both
\* keyword orders; by a token; by a name that is no attribute.
FeatClientRestrictions ==
  << << >>,
     << <<"lhs", "NP[num=sg]">> >>,
     << <<"lhs", "NP[]">> >>,
     << <<"is_complete", FALSE>>, <<"next", "VP[num=pl]">> >>,
     << <<"next", "NP[num=sg]">>, <<"is_complete", FALSE>> >>,
     << <<"next", "dog">> >>,
     << <<"tag", "x">> >> >>

FeatClientInit ==
  /\ parsers = {1}
  /\ FeatureEarleyChartParser
  /\ grammar = [r \in parsers |-> AgreementGrammar]
  /\ tokens = [r \in parsers |-> FeatClientTokens]
  /\ trace = [r \in parsers |-> 0]
  /\ pc = [r \in parsers |-> "client"]
  /\ chart = [r \in parsers |-> _chart_class(chart_class[r], tokens[r])]
  /\ axiom = [r \in parsers |-> 1]
  /\ end = [r \in parsers |-> 0]
  /\ agenda = [r \in parsers |-> << >>]
  /\ predicted = EmptyMap
  /\ popped = [r \in parsers |-> << >>]
  /\ emitted = [r \in parsers |-> << >>]
  /\ offered = [r \in parsers |-> << >>]
  /\ result = [r \in parsers |-> NoResult]

FeatChartNext ==
  \/ \E r \in parsers : \E edge \in FeatClientEdges :
       ClientInsert(r, edge, << >>)
  \/ \E r \in parsers : \E e \in _positions(chart[r]) :
       \E k \in 1..Len(FeatClientRestrictions) :
         ClientSelect(r, e, FeatClientRestrictions[k])

FeatChartSpec == FeatClientInit /\ [][FeatChartNext]_vars

(***************************************************************************)
(* Parse extraction (chart.py) and the derivations of the grammar          *)
(***************************************************************************)
\* A tree is <<label, children>>; a token is a tree without children.

\* tree(e, cpl) for every cpl of e, unfolded to trees of depth at most d.
RECURSIVE trees(_, _, _)
RECURSIVE ChildChoices(_, _, _, _)
trees(c, e, d) ==
  IF e.leaf THEN { <<e.lhs, << >> >> }
  ELSE IF d = 0 THEN {}
  ELSE UNION { { <<e.lhs, kids>> : kids \in ChildChoices(c, cpl, Len(cpl), d - 1) } :
               cpl \in c.edge_to_cpls[e] }

ChildChoices(c, cpl, k, d) ==
  IF k = 0 THEN { << >> }
  ELSE { Append(kids, t) : kids \in ChildChoices(c, cpl, k - 1, d),
                           t \in trees(c, cpl[k], d) }

\* The complete edges labelled root that span the whole input.
ParseEdges(c, root) ==
  { e \in EdgeSet(c) : /\ ~e.leaf
                       /\ e.lhs = root
                       /\ is_complete(e)
                       /\ e.start = 0
                       /\ e.end = num_leaves(c) }

\* chart.parses(root), as a set.
parses(c, root) == UNION { trees(c, e, MaxDepth) : e \in ParseEdges(c, root) }

\* FeatureChart.parses(root) (featurechart.py), as a set: the trees of the
\* complete edges over the whole input whose left-hand side unifies with
\* root.
Feature_parses(c, root) ==
  UNION { trees(c, e, MaxDepth) :
            e \in { e \in EdgeSet(c) : /\ ~e.leaf
                                       /\ is_complete(e)
                                       /\ e.start = 0
                                       /\ e.end = num_leaves(c)
                                       /\ unify(e.lhs, root).ok } }

\* The number of trees parses() lists: one per choice of child pointer list
\* and of a tree for each child.
RECURSIVE num_trees(_, _, _)
RECURSIVE SumCpls(_, _, _)
RECURSIVE ProdChildren(_, _, _, _)
num_trees(c, e, d) ==
  IF e.leaf THEN 1
  ELSE IF d = 0 THEN 0
  ELSE SumCpls(c, c.edge_to_cpls[e], d - 1)

SumCpls(c, cpls, d) ==
  IF cpls = {} THEN 0
  ELSE LET cpl == CHOOSE x \in cpls : TRUE
       IN ProdChildren(c, cpl, Len(cpl), d) + SumCpls(c, cpls \ {cpl}, d)

ProdChildren(c, cpl, k, d) ==
  IF k = 0 THEN 1
  ELSE ProdChildren(c, cpl, k - 1, d) * num_trees(c, cpl[k], d)

RECURSIVE SumEdges(_, _)
SumEdges(c, edges) ==
  IF edges = {} THEN 0
  ELSE LET e == CHOOSE x \in edges : TRUE
       IN num_trees(c, e, MaxDepth) + SumEdges(c, edges \ {e})

num_parses(c, root) == SumEdges(c, ParseEdges(c, root))

\* The derivations of w[i+1..j] from sym under g, of depth at most d: the
\* trees whose root is sym, whose inner nodes are productions of g and whose
\* leaves read w[i+1..j].
RECURSIVE Derivations(_, _, _, _, _, _)
RECURSIVE RhsDerivations(_, _, _, _, _, _, _)
Derivations(g, w, sym, i, j, d) ==
  IF ~is_nonterminal(sym)
  THEN IF j = i + 1 /\ w[j] = sym THEN { <<sym, << >> >> } ELSE {}
  ELSE IF d = 0 THEN {}
  ELSE UNION { { <<sym, kids>> :
                   kids \in RhsDerivations(g, w, p.rhs, 1, i, j, d - 1) } :
               p \in ListElems(productions_by_lhs(g, sym)) }

RhsDerivations(g, w, rhs, k, i, j, d) ==
  IF k > Len(rhs) THEN IF i = j THEN { << >> } ELSE {}
  ELSE UNION { { <<t>> \o rest :
                   t \in Derivations(g, w, rhs[k], i, m, d),
                   rest \in RhsDerivations(g, w, rhs, k + 1, m, j, d) } :
               m \in i..j }

\* The derivations of the whole input from the start symbol.
ValidDerivations(g, w) == Derivations(g, w, g.start, 0, Len(w), MaxDepth)

(***************************************************************************)
(* Properties                                                              *)
(***************************************************************************)
Returned(r) == pc[r] = "done"

\* The nonterminal derives the empty string.
Nullable(g, sym) == Derivations(g, << >>, sym, 0, 0, MaxDepth) # {}

HasProduction(g, l, r) ==
  \E i \in 1..Len(g.productions) : g.productions[i] = Production(l, r)

\* C1 (completeness): after chart_parse, every derivation of the input from
\* the start symbol is among the trees of chart.parses(S), and every
\* incomplete edge whose next symbol is a nullable nonterminal has its dot
\* advanced over the empty span.
C1_Completeness ==
  \A r \in parsers :
    Returned(r) =>
      /\ ValidDerivations(grammar[r], tokens[r])
           \subseteq parses(chart[r], grammar[r].start)
      /\ \A e \in EdgeSet(chart[r]) :
           (~is_complete(e) /\ is_nonterminal(next(e))
              /\ Nullable(grammar[r], next(e)))
             => move_dot_forward(e, e.end) \in EdgeSet(chart[r])

\* C2 (soundness): after chart_parse, every tree of chart.parses(S) is a
\* derivation of the input: its root is S, every inner node with its children
\* is a production, and its leaves read the tokens.
C2_Soundness ==
  \A r \in parsers :
    Returned(r) =>
      parses(chart[r], grammar[r].start)
        \subseteq ValidDerivations(grammar[r], tokens[r])

C2_Witness ==
  \E r \in parsers :
    /\ Returned(r)
    /\ Len(tokens[r]) >= 2
    /\ Cardinality(parses(chart[r], grammar[r].start)) >= 2

InLoop(r) == pc[r] \in {"for", "while", "done"}

\* C3 (incremental closure): once the driver has advanced past position p,
\* no step changes the edge list of p.
C3_IncrementalClosure ==
  [][\A r \in parsers :
       \A p \in DOMAIN chart[r].edgelists :
         (InLoop(r) /\ p < end[r])
           => chart'[r].edgelists[p] = chart[r].edgelists[p]]_vars

C3_Witness ==
  \E r \in parsers :
    /\ pc[r] = "while"
    /\ end[r] >= 2
    /\ \E e \in ListElems(chart[r].edgelists[end[r]]) : ~e.leaf /\ e.dot >= 1
    /\ \E e \in ListElems(chart[r].edgelists[end[r] - 1]) : ~e.leaf

\* C4 (incremental build order): for positions i < j, no edge ending at i is
\* built after an edge ending at j has been built, axioms included.
C4_BuildOrder ==
  [][\A r \in parsers :
       \A i \in DOMAIN chart[r].edgelists :
         chart'[r].edgelists[i] # chart[r].edgelists[i]
           => \A j \in DOMAIN chart[r].edgelists :
                j > i => chart[r].edgelists[j] = << >>]_vars

\* C5 (termination): chart_parse on a covered input eventually returns, with
\* every end position processed and the agenda empty.
C5_Termination ==
  <>(\A r \in parsers :
       check_coverage(grammar[r], tokens[r])
         => /\ Returned(r)
            /\ end[r] = Len(tokens[r]) + 1
            /\ agenda[r] = << >>)

C5_Witness ==
  \E r \in parsers :
    /\ Returned(r)
    /\ HasProduction(grammar[r], "A", <<"A">>)
    /\ Len(tokens[r]) >= 1
    /\ parses(chart[r], grammar[r].start) # {}

EdgeKey(e) == <<e.lhs, e.rhs, e.dot, e.start, e.end>>

\* C6 (no duplicates): the chart holds at most one tree edge per
\* (lhs, rhs, dot, span), and every edge is listed once, in the edge list of
\* its end.
C6_NoDuplicates ==
  \A r \in parsers :
    \A p \in DOMAIN chart[r].edgelists :
      \A i \in 1..Len(chart[r].edgelists[p]) :
        /\ chart[r].edgelists[p][i].end = p
        /\ \A q \in DOMAIN chart[r].edgelists :
             \A j \in 1..Len(chart[r].edgelists[q]) :
               (/\ <<q, j>> # <<p, i>>
                /\ chart[r].edgelists[q][j].leaf = chart[r].edgelists[p][i].leaf)
                 => EdgeKey(chart[r].edgelists[q][j])
                      # EdgeKey(chart[r].edgelists[p][i])

\* An edge was derived a second time and only gained a child pointer list.
C6_Witness ==
  \E r \in parsers :
    \E e \in DOMAIN chart[r].edge_to_cpls :
      Cardinality(chart[r].edge_to_cpls[e]) >= 2

\* The child pointer lists of e fit e: as many children as the dot, the i-th
\* a complete edge labelled rhs[i], the spans chained from e.start to e.end.
CplsFit(c, e) ==
  \A cpl \in c.edge_to_cpls[e] :
    /\ Len(cpl) = e.dot
    /\ \A i \in 1..Len(cpl) : is_complete(cpl[i]) /\ cpl[i].lhs = e.rhs[i]
    /\ IF Len(cpl) = 0 THEN e.start = e.end
       ELSE /\ cpl[1].start = e.start
            /\ cpl[Len(cpl)].end = e.end
            /\ \A i \in 1..(Len(cpl) - 1) : cpl[i].end = cpl[i + 1].start

HasCpls(c, e) == e \in DOMAIN c.edge_to_cpls /\ c.edge_to_cpls[e] # {}

\* C7 as stated: every edge of the chart, leaf edges included, has child
\* pointer lists that fit it.
C7_EveryEdge ==
  \A r \in parsers :
    \A e \in EdgeSet(chart[r]) : HasCpls(chart[r], e) /\ CplsFit(chart[r], e)

\* C7 (CPL well-formedness): every edge of the chart has a child pointer
\* list; those of a tree edge fit it; a leaf edge has the empty list only.
C7_CplWellFormed ==
  \A r \in parsers :
    \A e \in EdgeSet(chart[r]) :
      /\ HasCpls(chart[r], e)
      /\ IF e.leaf THEN chart[r].edge_to_cpls[e] = { << >> }
         ELSE CplsFit(chart[r], e)

C7_Witness ==
  \E r \in parsers :
    \E e \in EdgeSet(chart[r]) :
      /\ ~e.leaf
      /\ e.dot = 2
      /\ Cardinality(chart[r].edge_to_cpls[e]) >= 2

SameProgress ==
  /\ pc[1] = pc[2]
  /\ axiom[1] = axiom[2]
  /\ end[1] = end[2]
  /\ Len(popped[1]) = Len(popped[2])

C9_EmptyInput ==
  \A r \in parsers :
    (Returned(r) /\ tokens[r] = << >>)
      => num_parses(chart[r], grammar[r].start)
           = IF Nullable(grammar[r], grammar[r].start) THEN 1 ELSE 0

\* C10 (ambiguity): chart.parses(S) lists every derivation once, none twice
\* and none missing; for S -> S S | a on [a, a, a] the complete S edge over
\* [0,3] has two child pointer lists and there are two parses.
C10_Ambiguity ==
  \A r \in parsers :
    Returned(r) =>
      /\ num_parses(chart[r], grammar[r].start)
           = Cardinality(parses(chart[r], grammar[r].start))
      /\ parses(chart[r], grammar[r].start)
           = ValidDerivations(grammar[r], tokens[r])
      /\ (/\ grammar[r].productions
               = << Production("S", <<"S", "S">>), Production("S", <<"a">>) >>
          /\ tokens[r] = <<"a", "a", "a">>)
           => /\ TreeEdge(0, 3, "S", <<"S", "S">>, 2) \in EdgeSet(chart[r])
              /\ Cardinality(chart[r].edge_to_cpls[
                               TreeEdge(0, 3, "S", <<"S", "S">>, 2)]) = 2
              /\ num_parses(chart[r], grammar[r].start) = 2

\* C16 (coverage fails fast): on an input with a token the grammar does not
\* cover, chart_parse raises before a chart exists: no chart is created, no
\* axiom is fired, no edge is inserted, nothing is popped.
C16_CoverageFailsFast ==
  \A r \in parsers :
    ~check_coverage(grammar[r], tokens[r])
      => /\ pc[r] \in {"start", "raised"}
         /\ chart[r] = NoChart
         /\ axiom[r] = 1
         /\ agenda[r] = << >>
         /\ popped[r] = << >>

C16_Witness ==
  \E r \in parsers :
    /\ pc[r] = "raised"
    /\ Len(tokens[r]) >= 2
    /\ \E i \in 1..Len(tokens[r]) : check_coverage(grammar[r], <<tokens[r][i]>>)

\* C18 (cached prediction): in one parse the predictor makes the prediction
\* of (B, p) at most once, however often it is applied to an incomplete edge
\* ending at p whose next symbol is B; when made, the edges B -> . gamma over
\* [p, p] are in the chart.
C18_CachedPrediction ==
  \A r \in parsers :
    /\ \A i \in 1..Len(emitted[r]) :
         \A j \in 1..Len(emitted[r]) :
           (/\ i < j
            /\ emitted[r][i].sym = emitted[r][j].sym
            /\ emitted[r][i].pos = emitted[r][j].pos)
             => ~emitted[r][j].made
    /\ \A i \in 1..Len(emitted[r]) :
         \A k \in 1..Len(grammar[r].productions) :
           grammar[r].productions[k].lhs = emitted[r][i].sym
             => TreeEdge(emitted[r][i].pos, emitted[r][i].pos,
                         emitted[r][i].sym, grammar[r].productions[k].rhs, 0)
                  \in EdgeSet(chart[r])

\* The predictor was applied three times to edges with the same next symbol
\* at a position after the first.
C18_Witness ==
  \E r \in parsers :
    \E i \in 1..Len(emitted[r]) :
      /\ emitted[r][i].pos >= 1
      /\ Cardinality({ j \in 1..Len(emitted[r]) :
                         /\ emitted[r][j].sym = emitted[r][i].sym
                         /\ emitted[r][j].pos = emitted[r][i].pos }) >= 3

\* Each returned call holds the chart, and so the parses, of the same call
\* run alone.
SameResultAsAlone ==
  \A r \in parsers :
    Returned(r) =>
      /\ chart[r] = chart_parse(grammar[r], tokens[r], trace[r]).chart
      /\ parses(chart[r], grammar[r].start)
           = parses(chart_parse(grammar[r], tokens[r], trace[r]).chart,
                    grammar[r].start)

\* C19 (independent parses): two interleaved calls that use the rule objects
\* of the default strategy each end with the chart and the parses of the
\* same call run alone, and neither sees state of the other: its predictor
\* makes and skips the predictions it makes and skips when run alone.
C19_IndependentParses ==
  \A r \in parsers :
    Returned(r) =>
      /\ chart[r] = chart_parse(grammar[r], tokens[r], trace[r]).chart
      /\ parses(chart[r], grammar[r].start)
           = parses(chart_parse(grammar[r], tokens[r], trace[r]).chart,
                    grammar[r].start)
      /\ emitted[r] = chart_parse(grammar[r], tokens[r], trace[r]).emits

\* C20 (tracing): a call with trace >= 1, which runs each rule's generator
\* into a list before its edges reach the agenda, returns the chart of the
\* same call with trace = 0: the same edge list per end position in the same
\* order, the same child pointer lists per edge, and so the same parses.
C20_TraceSameChart ==
  \A r \in parsers :
    (Returned(r) /\ trace[r] >= 1) =>
      /\ chart[r].edgelists
           = chart_parse(grammar[r], tokens[r], 0).chart.edgelists
      /\ chart[r].edge_to_cpls
           = chart_parse(grammar[r], tokens[r], 0).chart.edge_to_cpls
      /\ parses(chart[r], grammar[r].start)
           = parses(chart_parse(grammar[r], tokens[r], 0).chart,
                    grammar[r].start)

C20_Witness ==
  \E r \in parsers :
    /\ Returned(r)
    /\ trace[r] = 2
    /\ Len(popped[r]) >= 8
    /\ Len(tokens[r]) >= 2
    /\ Cardinality(parses(chart[r], grammar[r].start)) >= 2

\* The num values a variable can be bound to.
NumValues == {"sg", "pl"}

\* The child pointer list fits one instance of a production of the
\* grammar: with ?n bound to one value throughout, every child is the token
\* at its place or has a left-hand side that unifies with the symbol there.
FitsProduction(g, e, cpl) ==
  \E j \in 1..Len(g.productions) : \E v \in NumValues :
    /\ Len(g.productions[j].rhs) = Len(e.rhs)
    /\ unify(g.productions[j].lhs, e.lhs).ok
    /\ \A i \in 1..Len(cpl) :
         LET sym == substitute_bindings(g.productions[j].rhs[i],
                                        [x \in {"?n"} |-> v])
         IN IF cpl[i].leaf THEN cpl[i].lhs = sym
            ELSE sym \in FeatNonterminals /\ unify(sym, cpl[i].lhs).ok

\* The trees the grammars of FeatGrammars give a token sequence: S over a
\* noun and a verb whose num values do not conflict.
ExpectedFeatParses(g, w) ==
  IF Len(w) # 2 THEN {}
  ELSE { <<"S[]", << <<pq[1].lhs, << <<w[1], << >> >> >> >>,
                     <<pq[2].lhs, << <<w[2], << >> >> >> >> >> >> :
           pq \in { pq \in ListElems(g.productions)
                             \X ListElems(g.productions) :
                      /\ pq[1].rhs = <<w[1]>>
                      /\ pq[2].rhs = <<w[2]>>
                      /\ FeatType(pq[1].lhs) = "NP"
                      /\ FeatType(pq[2].lhs) = "VP"
                      /\ \E v \in NumValues :
                           /\ unify(FeatStructNonterminal("NP", v),
                                    pq[1].lhs).ok
                           /\ unify(FeatStructNonterminal("VP", v),
                                    pq[2].lhs).ok } }

\* C11 (feature agreement): with FEATURE_EARLEY_STRATEGY an edge is advanced
\* over a child only when the child unifies with the next symbol under the
\* bindings made so far, so every child pointer list fits one instance of a
\* production; the returned parses are those in which noun and verb agree;
\* for S -> NP[num=?n] VP[num=?n], NP[num=sg] -> dog, VP[num=sg] -> barks,
\* VP[num=pl] -> bark, [dog, barks] has one parse and [dog, bark] has none,
\* and the call on [dog, bark] does not raise.
C11_FeatureAgreement ==
  \A r \in parsers :
    /\ \A e \in DOMAIN chart[r].edge_to_cpls :
         \A cpl \in chart[r].edge_to_cpls[e] :
           ~e.leaf => FitsProduction(grammar[r], e, cpl)
    /\ Returned(r) =>
         Feature_parses(chart[r], grammar[r].start)
           = ExpectedFeatParses(grammar[r], tokens[r])
    /\ (grammar[r] = AgreementGrammar /\ tokens[r] = <<"dog", "barks">>) =>
         /\ pc[r] # "raised"
         /\ Returned(r) =>
              Cardinality(Feature_parses(chart[r], grammar[r].start)) = 1
    /\ (grammar[r] = AgreementGrammar /\ tokens[r] = <<"dog", "bark">>) =>
         /\ pc[r] # "raised"
         /\ Returned(r) => Feature_parses(chart[r], grammar[r].start) = {}

\* The call on [dog, bark] has returned: NP[num=sg] has bound ?n in the S
\* edge, and there is no parse.
C11_Witness ==
  \E r \in parsers :
    /\ Returned(r)
    /\ grammar[r] = AgreementGrammar
    /\ tokens[r] = <<"dog", "bark">>
    /\ TreeEdge(0, 1, "S[]", <<"NP[num=?n]", "VP[num=sg]">>, 1)
         \in EdgeSet(chart[r])
    /\ Feature_parses(chart[r], grammar[r].start) = {}

\* C21 (every rule is offered the popped edge): after an edge is popped,
\* each inference rule of the strategy, in strategy order, has been applied
\* once, and each of them to the popped edge itself.
C21_OfferedToEachRule ==
  \A r \in parsers :
    popped[r] # << >> =>
      /\ Len(offered[r]) = Len(_inference_rules(strategy[r]))
      /\ \A k \in 1..Len(offered[r]) :
           /\ offered[r][k].rule = _inference_rules(strategy[r])[k]
           /\ offered[r][k].edge = popped[r][Len(popped[r])]

(***************************************************************************)
(* Properties of the feature chart under a client (FeatChartSpec)          *)
(***************************************************************************)
\* The attribute of an edge matches the requested value: two feature
\* nonterminals unify; anything else is equal.
Unifies(key, attr, value) ==
  IF key \in SymbolAttributes /\ attr \in FeatNonterminals
                              /\ value \in FeatNonterminals
  THEN unify(attr, value).ok
  ELSE attr = value

\* The edges at end e whose queried attributes unify with the requested
\* values.
UnifyingEdges(c, e, restrictions) ==
  { edge \in ListElems(c.edgelists[e]) :
      \A i \in 1..Len(restrictions) :
        Unifies(restrictions[i][1], EdgeAttr(edge, restrictions[i][1]),
                restrictions[i][2]) }

\* The edges at end e whose queried attributes have the type of the
\* requested values, in insertion order.
SameTypeEdges(c, e, restrictions) ==
  SelectSeq(c.edgelists[e],
            LAMBDA edge :
              \A i \in 1..Len(restrictions) :
                TypeOfValue(restrictions[i][1],
                            EdgeAttr(edge, restrictions[i][1]))
                  = TypeOfValue(restrictions[i][1], restrictions[i][2]))

\* C15 as stated (select by unification): FeatureIncrementalChart.select
\* returns exactly the edges at end whose queried attributes unify with the
\* requested values; no edge of the same type with a conflicting feature
\* value is returned.
C15_SelectUnifies ==
  \A r \in parsers :
    (result[r].op = "select" /\ ~result[r].raised) =>
      ListElems(result[r].value)
        = UnifyingEdges(chart[r], result[r].end, result[r].restrictions)

\* C15 amended (select by type): FeatureIncrementalChart.select returns, in
\* insertion order, exactly the edges at end whose queried attributes have
\* the type of the requested values; every edge that unifies is among them.
C15_SelectByType ==
  \A r \in parsers :
    (result[r].op = "select" /\ ~result[r].raised) =>
      /\ result[r].value
           = SameTypeEdges(chart[r], result[r].end, result[r].restrictions)
      /\ UnifyingEdges(chart[r], result[r].end, result[r].restrictions)
           \subseteq ListElems(result[r].value)

\* select(lhs=NP[num=sg]) has returned the NP[num=sg] edge and, with it,
\* the NP[num=pl] edge, which does not unify.
C15_Witness ==
  \E r \in parsers :
    /\ result[r].op = "select"
    /\ ~result[r].raised
    /\ result[r].restrictions = << <<"lhs", "NP[num=sg]">> >>
    /\ TreeEdge(0, 0, "NP[num=sg]", <<"dog">>, 0)
         \in ListElems(result[r].value)
    /\ TreeEdge(0, 0, "NP[num=pl]", <<"dogs">>, 0)
         \in ListElems(result[r].value)

(***************************************************************************)
(* Properties of the chart under a client (ChartSpec)                      *)
(***************************************************************************)
Count(lst, x) == Cardinality({ i \in 1..Len(lst) : lst[i] = x })

\* C12 (insert): insert(edge, cpl) on an edge of the chart returns false,
\* leaves the edge lists and the indexes as they are and changes cpls[edge]
\* only by adding cpl; on an edge not in the chart it returns true, appends
\* the edge to edgelists[edge.end] and, in every materialized index, to the
\* list of its attribute values at its end.
C12_InsertFrame ==
  [][\A r \in parsers :
       result'[r].op = "insert" =>
         LET edge == result'[r].edge
             cpl == result'[r].cpl
             c == chart[r]
             d == chart'[r]
         IN IF edge \in EdgeSet(c)
            THEN /\ result'[r].value = FALSE
                 /\ d.edgelists = c.edgelists
                 /\ d.indexes = c.indexes
                 /\ DOMAIN d.edge_to_cpls = DOMAIN c.edge_to_cpls
                 /\ \A e \in DOMAIN c.edge_to_cpls :
                      d.edge_to_cpls[e] = IF e = edge
                                          THEN c.edge_to_cpls[e] \cup {cpl}
                                          ELSE c.edge_to_cpls[e]
            ELSE /\ result'[r].value = TRUE
                 /\ d.edgelists =
                      [c.edgelists EXCEPT ![edge.end] = Append(@, edge)]
                 /\ d.edge_to_cpls[edge] = {cpl}
                 /\ \A e \in DOMAIN c.edge_to_cpls :
                      d.edge_to_cpls[e] = c.edge_to_cpls[e]
                 /\ DOMAIN d.indexes = DOMAIN c.indexes
                 /\ \A K \in DOMAIN c.indexes :
                      \A p \in DOMAIN c.edgelists :
                        LET v == AttrVals(edge, K)
                        IN IF p = edge.end
                           THEN /\ v \in DOMAIN d.indexes[K][p]
                                /\ d.indexes[K][p][v] =
                                     Append(MapGet(c.indexes[K][p], v, << >>),
                                            edge)
                                /\ \A w \in DOMAIN c.indexes[K][p] \ {v} :
                                     /\ w \in DOMAIN d.indexes[K][p]
                                     /\ d.indexes[K][p][w] = c.indexes[K][p][w]
                                /\ DOMAIN d.indexes[K][p]
                                     = DOMAIN c.indexes[K][p] \cup {v}
                           ELSE d.indexes[K][p] = c.indexes[K][p]]_vars

\* A known edge was inserted again with a second child pointer list, and a
\* new edge was inserted into a chart with both indexes materialized.
C12_Witness ==
  \E r \in parsers :
    /\ result[r].op = "insert"
    /\ result[r].value = FALSE
    /\ Cardinality(chart[r].edge_to_cpls[result[r].edge]) = 2
    /\ Cardinality(DOMAIN chart[r].indexes) = 2
    /\ Len(iteredges(chart[r])) = MaxEdges

\* C13 (index completeness): every materialized index K lists, at each end
\* position, each edge of the edge list exactly once, under the edge's
\* attribute values for K, and lists no edge that is not in the edge list.
C13_IndexComplete ==
  \A r \in parsers :
    \A K \in DOMAIN chart[r].indexes :
      \A p \in DOMAIN chart[r].edgelists :
        LET idx == chart[r].indexes[K][p]
            lst == chart[r].edgelists[p]
        IN /\ \A i \in 1..Len(lst) :
                /\ AttrVals(lst[i], K) \in DOMAIN idx
                /\ \A v \in DOMAIN idx :
                     Count(idx[v], lst[i])
                       = IF v = AttrVals(lst[i], K) THEN 1 ELSE 0
           /\ \A v \in DOMAIN idx : ListElems(idx[v]) \subseteq ListElems(lst)

\* Both indexes are materialized, one of them lists two edges under the same
\* values, and the last call was an insert of a new edge.
C13_Witness ==
  \E r \in parsers :
    /\ Cardinality(DOMAIN chart[r].indexes) = 2
    /\ \E K \in DOMAIN chart[r].indexes :
         \E v \in DOMAIN chart[r].indexes[K][0] :
           Len(chart[r].indexes[K][0][v]) = 2
    /\ result[r].op = "insert"
    /\ result[r].value = TRUE

\* The chart of a client that made the same inserts and never called select.
Unindexed(c) == [c EXCEPT !.indexes = EmptyMap]

\* list(chart.select(end, **restrictions))
Selected(c, e, restrictions) ==
  LET sel == select(c, e, restrictions) IN IterList(sel.chart, sel.iter)

BagOfList(lst) == [x \in ListElems(lst) |-> Count(lst, x)]

GoodRestrictions ==
  { k \in 1..Len(ClientRestrictions) :
      \A i \in 1..Len(ClientRestrictions[k]) :
        ClientRestrictions[k][i][1] \in EdgeIAttributes }

\* C14 (index idempotence): select(end, R) returns the same multiset of edges
\* from a chart whose index for R was materialized at any earlier time and
\* maintained by the inserts, and from the chart with the same inserts where
\* this select materializes the index; an index is held once per set of
\* names, whatever the order the names were given in.
C14_IndexIdempotent ==
  \A r \in parsers :
    /\ \A p \in DOMAIN chart[r].edgelists :
         \A k \in GoodRestrictions :
           BagOfList(Selected(chart[r], p, ClientRestrictions[k]))
             = BagOfList(Selected(Unindexed(chart[r]), p, ClientRestrictions[k]))
    /\ \A K1 \in DOMAIN chart[r].indexes :
         \A K2 \in DOMAIN chart[r].indexes :
           ListElems(K1) = ListElems(K2) => K1 = K2

\* The last select used the two-name index, materialized earlier, and
\* returned two edges.
C14_Witness ==
  \E r \in parsers :
    /\ result[r].op = "select"
    /\ Len(result[r].restrictions) = 2
    /\ ~result[r].raised
    /\ Len(result[r].value) = 2
    /\ Len(iteredges(chart[r])) = MaxEdges

BadRestriction(restrictions) ==
  \E i \in 1..Len(restrictions) : restrictions[i][1] \notin EdgeIAttributes

\* C17 (bad restriction): select with a name that is no attribute of an edge
\* raises and leaves the chart as it was: no index is registered for the key
\* tuple, no edge list and no index changes, and the same call raises again.
C17_BadRestriction ==
  [][\A r \in parsers :
       (result'[r].op = "select" /\ BadRestriction(result'[r].restrictions))
         => /\ result'[r].raised
            /\ chart'[r] = chart[r]
            /\ SortKeys(keys(result'[r].restrictions))
                 \notin DOMAIN chart'[r].indexes
            /\ select(chart'[r], result'[r].end,
                      result'[r].restrictions).raised]_vars

C17_Witness ==
  \E r \in parsers :
    /\ result[r].op = "select"
    /\ result[r].raised
    /\ Len(result[r].restrictions) = 2
    /\ Len(iteredges(chart[r])) >= 2
    /\ chart[r].indexes # EmptyMap

(***************************************************************************)
(* The agenda                                                              *)
(***************************************************************************)
\* The edges a step adds to the chart of call r.
NewEdges(r) == EdgeSet(chart'[r]) \ EdgeSet(chart[r])

\* While "while agenda" runs at position end, the agenda holds edges ending
\* at end, each once, and none that was popped before; no edge is popped
\* twice; a returned call has popped every edge of its chart.
AgendaInv ==
  \A r \in parsers :
    /\ pc[r] = "while" =>
         \A i \in 1..Len(agenda[r]) :
           /\ agenda[r][i].end = end[r]
           /\ agenda[r][i] \in EdgeSet(chart[r])
           /\ Count(agenda[r], agenda[r][i]) = 1
           /\ Count(popped[r], agenda[r][i]) = 0
    /\ \A i \in 1..Len(popped[r]) : Count(popped[r], popped[r][i]) = 1
    /\ Returned(r) =>
         \A e \in EdgeSet(chart[r]) : Count(popped[r], e) = 1

\* A step of the loop body adds only edges ending at end, and each of them
\* is on the agenda when the step is done.
AgendaStep ==
  \A r \in parsers :
    pc[r] = "while" =>
      \A e \in NewEdges(r) :
        /\ e.end = end[r]
        /\ Count(agenda'[r], e) = 1

\* C22 (agenda): with the default strategy every edge a trigger rule inserts
\* while the driver is at end position q ends at q, so the test edge.end()
\* == end drops none of them; the agenda at q holds only edges ending at q;
\* and every edge of the final chart, axiom edges included, has been popped
\* exactly once.
C22_Agenda == [] AgendaInv /\ [][AgendaStep]_vars

\* A call over two tokens has returned after pops at all three positions,
\* one of which added two edges or more.
C22_Witness ==
  \E r \in parsers :
    /\ Returned(r)
    /\ Len(tokens[r]) >= 2
    /\ \A q \in 0..2 : \E i \in 1..Len(popped[r]) : popped[r][i].end = q
    /\ Len(popped[r]) >= 10
    /\ Cardinality(parses(chart[r], grammar[r].start)) >= 1

====
